---- MODULE Spec2Model ----
(***************************************************************************)
(* A model of the data-quality / cleaning stages of src/src/cleaning.py.   *)
(*                                                                         *)
(* A DataFrame is a record [columns, dtypes, rows]: the ordered column     *)
(* names, the dtype of every column and the rows in order, each row a      *)
(* function from column name to cell.  A cell is a record [t, n, d, s]:    *)
(* the missing marker, the number n/d, a string s or a bool.               *)
(*                                                                         *)
(* The library calls the stages delegate to are modelled with the          *)
(* semantics of pandas 2.x and scikit-learn 1.x:                           *)
(*   - the chained `df[col].fillna(..., inplace=True)` writes through to   *)
(*     df (under copy-on-write, the default from pandas 3, it would not);  *)
(*   - get_dummies yields bool columns over the sorted categories;         *)
(*   - LabelEncoder numbers the sorted classes, a missing value last;      *)
(*   - KNNImputer on one column falls back to the column mean.             *)
(* float64 values are modelled by exact rationals, so rounding is not.     *)
(***************************************************************************)
EXTENDS Integers, Sequences, FiniteSets, TLC

VARIABLES df, out, kind, err, mask, report, pre, op, pc, calls, imputed

vars == <<df, out, kind, err, mask, report, pre, op, pc, calls, imputed>>

(***************************************************************************)
(* Cells.                                                                  *)
(***************************************************************************)

\* the missing marker (NaN / None / NaT)
NULL == [t |-> "null", n |-> 0, d |-> 1, s |-> ""]

RECURSIVE GCD(_, _)
GCD(a, b) == IF b = 0 THEN a ELSE GCD(b, a % b)

Abs(x) == IF x < 0 THEN -x ELSE x

\* the number n/d in lowest terms, d > 0
Rat(n, d) ==
    LET g == GCD(Abs(n), Abs(d))
        sg == IF d < 0 THEN -1 ELSE 1
    IN  [t |-> "num", n |-> sg * (n \div g), d |-> sg * (d \div g), s |-> ""]

Num(n) == [t |-> "num", n |-> n, d |-> 1, s |-> ""]

Str(s) == [t |-> "str", n |-> 0, d |-> 1, s |-> s]

Bool(b) == [t |-> "bool", n |-> IF b THEN 1 ELSE 0, d |-> 1, s |-> ""]

IsNull(c) == c.t = "null"

\* arithmetic of float columns; NaN propagates
RAdd(a, b) == IF IsNull(a) \/ IsNull(b) THEN NULL ELSE Rat(a.n * b.d + b.n * a.d, a.d * b.d)

RSub(a, b) == IF IsNull(a) \/ IsNull(b) THEN NULL ELSE Rat(a.n * b.d - b.n * a.d, a.d * b.d)

RMul(a, b) == IF IsNull(a) \/ IsNull(b) THEN NULL ELSE Rat(a.n * b.n, a.d * b.d)

\* IEEE division: 0/0 is NaN and raises nothing
RDiv(a, b) == IF IsNull(a) \/ IsNull(b) \/ b.n = 0 THEN NULL ELSE Rat(a.n * b.d, a.d * b.n)

\* the strings of the model in ascending code-point order (Python's str order)
StrOrder == <<"blue", "green", "red">>

StrRank(s) == CHOOSE i \in 1..Len(StrOrder) : StrOrder[i] = s

\* a < b for two non-missing cells of one column
CellLess(a, b) ==
    IF a.t = "str" /\ b.t = "str" THEN StrRank(a.s) < StrRank(b.s)
    ELSE a.n * b.d < b.n * a.d

\* an elementwise comparison `series < bound`: False wherever either side is NaN
NumLess(a, b) == ~IsNull(a) /\ ~IsNull(b) /\ a.n * b.d < b.n * a.d

(***************************************************************************)
(* DataFrames.                                                             *)
(***************************************************************************)

ColSet(d) == {d.columns[i] : i \in 1..Len(d.columns)}

NRows(d) == Len(d.rows)

\* df[col] as the sequence of its cells
Column(d, col) == [i \in 1..NRows(d) |-> d.rows[i][col]]

NonNull(s) == SelectSeq(s, LAMBDA c : ~IsNull(c))

Range(s) == {s[i] : i \in 1..Len(s)}

Sorted(s) == SortSeq(s, CellLess)

\* the distinct values of s in order of first appearance
RECURSIVE Unique(_)
Unique(s) ==
    IF s = << >> THEN << >>
    ELSE LET u == Unique(SubSeq(s, 1, Len(s) - 1))
             x == s[Len(s)]
         IN  IF x \in Range(u) THEN u ELSE Append(u, x)

RECURSIVE SumSeq(_)
SumSeq(s) == IF s = << >> THEN Num(0) ELSE RAdd(Head(s), SumSeq(Tail(s)))

EmptyDf == [columns |-> << >>, dtypes |-> [c \in {} |-> ""], rows |-> << >>]

\* the results a stage call can end with
Returned(d, o, k) == [df |-> d, out |-> o, kind |-> k, err |-> "", mask |-> << >>, report |-> << >>]

\* the call raised exception class e; d is the caller's dataset as the call left it
Raised(d, e) == [df |-> d, out |-> EmptyDf, kind |-> "error", err |-> e, mask |-> << >>, report |-> << >>]

(***************************************************************************)
(* Series statistics (skipna=True).                                        *)
(***************************************************************************)

\* a mean that counts the missing cells as rows
MeanOverAllRows(s) ==
    IF NonNull(s) = << >> THEN NULL ELSE RDiv(SumSeq(NonNull(s)), Num(Len(s)))

\* Series.mean(): NaN for a series with no value
Mean(s) ==
    LET v == NonNull(s)
    IN  IF v = << >> THEN NULL ELSE RDiv(SumSeq(v), Num(Len(v)))

\* Series.median(): the middle value, or the mean of the two middle values
Median(s) ==
    LET v == Sorted(NonNull(s))
        n == Len(v)
    IN  IF n = 0 THEN NULL
        ELSE IF n % 2 = 1 THEN v[(n + 1) \div 2]
        ELSE RDiv(RAdd(v[n \div 2], v[n \div 2 + 1]), Num(2))

Count(s, x) == Cardinality({i \in 1..Len(s) : s[i] = x})

\* Series.mode(): the most frequent values, sorted ascending
Modes(s) ==
    LET v == NonNull(s)
        best == {x \in Range(v) : \A y \in Range(v) : Count(v, y) <= Count(v, x)}
    IN  Sorted(SelectSeq(Unique(v), LAMBDA x : x \in best))

\* Series.quantile(q), interpolation='linear': the value at rank (n-1)*q of the
\* sorted values, interpolated between its two neighbours
Quantile(s, q) ==
    LET v == Sorted(NonNull(s))
        n == Len(v)
        h == RMul(Num(n - 1), q)
        lo == h.n \div h.d
        frac == RSub(h, Num(lo))
        a == v[lo + 1]
        b == v[IF lo + 2 <= n THEN lo + 2 ELSE lo + 1]
    IN  IF n = 0 THEN NULL
        ELSE RAdd(a, RMul(RSub(b, a), frac))

\* the series holds text, which the numeric reductions reject
HasText(s) == \E i \in 1..Len(s) : s[i].t = "str"

(***************************************************************************)
(* handle_missing_values                                                   *)
(***************************************************************************)

\* df[col] = cells, with the dtype the assignment gives the column
SetColumn(d, col, cells, dtype) ==
    [d EXCEPT !.dtypes = [c \in DOMAIN d.dtypes |-> IF c = col THEN dtype ELSE d.dtypes[c]],
              !.rows = [i \in 1..NRows(d) |-> [d.rows[i] EXCEPT ![col] = cells[i]]]]

\* a fill that drops the rows it should fill
FillNaDropping(d, col, v) ==
    [d EXCEPT !.rows = SelectSeq(d.rows, LAMBDA r : ~IsNull(r[col]))]

\* df[col].fillna(v, inplace=True): every missing cell of the column becomes v
\* (fillna(NaN) fills nothing), every other cell is left alone
FillNa(d, col, v) ==
    [d EXCEPT !.rows = [i \in 1..NRows(d) |->
        [d.rows[i] EXCEPT ![col] = IF IsNull(@) /\ ~IsNull(v) THEN v ELSE @]]]

\* a drop that ignores the subset
DropNaAnyColumn(d, cols) ==
    [d EXCEPT !.rows = SelectSeq(d.rows, LAMBDA r : \A c \in ColSet(d) : ~IsNull(r[c]))]

\* df.dropna(subset=cols): the rows with no missing cell in cols, in order
DropNa(d, cols) ==
    [d EXCEPT !.rows = SelectSeq(d.rows, LAMBDA r : \A c \in Range(cols) : ~IsNull(r[c]))]

\* KNNImputer(...).fit_transform(df[[col]]) on a single feature: a row missing it
\* has no defined distance to any donor, so it gets the column mean; the result
\* is a float64 array
KnnColumn(d, col) ==
    LET s == Column(d, col)
        m == Mean(s)
    IN  [i \in 1..Len(s) |-> IF IsNull(s[i]) THEN m ELSE Rat(s[i].n, s[i].d)]

\* one iteration of `for col in columns` (lines 73-82)
ImputeStep(d, strategy, col) ==
    IF strategy \notin {"mean", "median", "mode", "knn"} THEN [df |-> d, err |-> ""]
    ELSE IF col \notin ColSet(d) THEN [df |-> d, err |-> "KeyError"]
    ELSE LET s == Column(d, col) IN
      CASE strategy = "mean" ->
             IF HasText(s) THEN [df |-> d, err |-> "TypeError"]
             ELSE [df |-> FillNa(d, col, Mean(s)), err |-> ""]
        [] strategy = "median" ->
             IF HasText(s) THEN [df |-> d, err |-> "TypeError"]
             ELSE [df |-> FillNa(d, col, Median(s)), err |-> ""]
        [] strategy = "mode" ->
             IF Modes(s) = << >> THEN [df |-> d, err |-> "KeyError"]
             ELSE [df |-> FillNa(d, col, Modes(s)[1]), err |-> ""]
        [] strategy = "knn" ->
             IF HasText(s) \/ NonNull(s) = << >> THEN [df |-> d, err |-> "ValueError"]
             ELSE [df |-> SetColumn(d, col, KnnColumn(d, col), "float64"), err |-> ""]

\* the loop over the columns: it stops at the first column that raises, with the
\* columns before it already written
RECURSIVE ImputeLoop(_, _, _)
ImputeLoop(d, strategy, cols) ==
    IF cols = << >> THEN [df |-> d, err |-> ""]
    ELSE LET r == ImputeStep(d, strategy, Head(cols))
         IN  IF r.err # "" THEN r ELSE ImputeLoop(r.df, strategy, Tail(cols))

\* an imputation that works on a copy and leaves the caller's dataset alone
handle_missing_values_on_copy(d, strategy, columns) ==
    LET cols == IF columns # << >> THEN columns ELSE d.columns
    IN  IF strategy = "drop"
        THEN IF Range(cols) \subseteq ColSet(d)
             THEN Returned(d, DropNa(d, cols), "new")
             ELSE Raised(d, "KeyError")
        ELSE LET r == ImputeLoop(d, strategy, cols)
             IN  IF r.err # "" THEN Raised(d, r.err) ELSE Returned(d, r.df, "new")

\* handle_missing_values(df, strategy, columns); columns = << >> is None (or an
\* empty list), which the code replaces by df.columns
handle_missing_values(d, strategy, columns) ==
    LET cols == IF columns # << >> THEN columns ELSE d.columns
    IN  IF strategy = "drop"
        THEN IF Range(cols) \subseteq ColSet(d)
             THEN Returned(d, DropNa(d, cols), "new")
             ELSE Raised(d, "KeyError")
        ELSE LET r == ImputeLoop(d, strategy, cols)
             IN  IF r.err # "" THEN Raised(r.df, r.err) ELSE Returned(r.df, r.df, "same")

(***************************************************************************)
(* remove_duplicates, detect_outliers_iqr, remove_outliers                 *)
(***************************************************************************)

\* boolean indexing df[keep]: the rows whose flag is set, in order
RECURSIVE Filter(_, _)
Filter(s, keep) ==
    IF s = << >> THEN << >>
    ELSE LET n == Len(s)
             rest == Filter(SubSeq(s, 1, n - 1), SubSeq(keep, 1, n - 1))
         IN  IF keep[n] THEN Append(rest, s[n]) ELSE rest

\* a duplicate scan that stops at the first duplicate it finds
DuplicatedFirstOnly(d, cols) ==
    LET dup == [i \in 1..NRows(d) |->
                  \E j \in 1..(i - 1) : \A c \in Range(cols) : d.rows[j][c] = d.rows[i][c]]
    IN  [i \in 1..NRows(d) |-> dup[i] /\ \A j \in 1..(i - 1) : ~dup[j]]

\* df.duplicated(subset=cols), keep='first': a row is flagged when an earlier row
\* agrees with it on every column of cols (missing equals missing)
Duplicated(d, cols) ==
    [i \in 1..NRows(d) |->
        \E j \in 1..(i - 1) : \A c \in Range(cols) : d.rows[j][c] = d.rows[i][c]]

\* remove_duplicates(df, subset); subset = << >> is None: all columns
remove_duplicates(d, subset) ==
    LET cols == IF subset # << >> THEN subset ELSE d.columns
    IN  IF ~(Range(cols) \subseteq ColSet(d)) THEN Raised(d, "KeyError")
        ELSE LET dup == Duplicated(d, cols)
             IN  Returned(d, [d EXCEPT !.rows = Filter(d.rows, [i \in 1..NRows(d) |-> ~dup[i]])], "new")

\* a fence whose bounds themselves count as outliers
OutlierMaskInclusive(s) ==
    LET Q1 == Quantile(s, Rat(1, 4))
        Q3 == Quantile(s, Rat(3, 4))
        IQR == RSub(Q3, Q1)
        lower_bound == RSub(Q1, RMul(Rat(3, 2), IQR))
        upper_bound == RAdd(Q3, RMul(Rat(3, 2), IQR))
    IN  [i \in 1..Len(s) |-> ~NumLess(lower_bound, s[i]) \/ ~NumLess(s[i], upper_bound)]

\* the mask of lines 137-142
OutlierMask(s) ==
    LET Q1 == Quantile(s, Rat(1, 4))
        Q3 == Quantile(s, Rat(3, 4))
        IQR == RSub(Q3, Q1)
        lower_bound == RSub(Q1, RMul(Rat(3, 2), IQR))
        upper_bound == RAdd(Q3, RMul(Rat(3, 2), IQR))
    IN  [i \in 1..Len(s) |-> NumLess(s[i], lower_bound) \/ NumLess(upper_bound, s[i])]

\* detect_outliers_iqr(df, column)
detect_outliers_iqr(d, column) ==
    IF column \notin ColSet(d) THEN Raised(d, "KeyError")
    ELSE IF HasText(Column(d, column)) THEN Raised(d, "TypeError")
    ELSE [Returned(d, EmptyDf, "mask") EXCEPT !.mask = OutlierMask(Column(d, column))]

\* remove_outliers(df, column): df[~outliers]
remove_outliers(d, column) ==
    LET r == detect_outliers_iqr(d, column)
    IN  IF r.kind = "error" THEN r
        ELSE Returned(d, [d EXCEPT !.rows = Filter(d.rows, [i \in 1..NRows(d) |-> ~r.mask[i]])], "new")

(***************************************************************************)
(* data_quality_report                                                     *)
(***************************************************************************)

\* (df.isnull().sum() / len(df)) * 100 for one column
NullPercentage(d, col) ==
    RMul(RDiv(Num(Len(Column(d, col)) - Len(NonNull(Column(d, col)))), Num(NRows(d))), Num(100))

\* data_quality_report(df): one record per column
data_quality_report(d) ==
    [Returned(d, EmptyDf, "report") EXCEPT !.report =
        [k \in 1..Len(d.columns) |->
            LET col == d.columns[k]
                s == Column(d, col)
            IN  [Column |-> col,
                 DataType |-> d.dtypes[col],
                 NonNullCount |-> Len(NonNull(s)),
                 NullCount |-> Len(s) - Len(NonNull(s)),
                 NullPercentage |-> NullPercentage(d, col),
                 UniqueValues |-> Cardinality(Range(NonNull(s))),
                 DuplicateRows |-> Cardinality({i \in 1..NRows(d) : Duplicated(d, d.columns)[i]})]]]

(***************************************************************************)
(* convert_dtypes                                                          *)
(***************************************************************************)

\* pd.to_datetime(df[col]) parses: no string of the model is a date, so it does
\* only when the column holds no text at all
ParsesAsDates(s) == ~HasText(s)

\* convert_dtypes(df): object columns that parse become datetime64[ns] (the
\* failure of the others is swallowed), then int64/float64 columns are downcast
\* to float32; cell values stand for themselves at either precision
convert_dtypes(d) ==
    LET dated == [c \in DOMAIN d.dtypes |->
                    IF d.dtypes[c] = "object" /\ ParsesAsDates(Column(d, c))
                    THEN "datetime64[ns]" ELSE d.dtypes[c]]
        cast == [c \in DOMAIN d.dtypes |->
                    IF dated[c] \in {"int64", "float64"} THEN "float32" ELSE dated[c]]
        res == [d EXCEPT !.dtypes = cast,
                         !.rows = [i \in 1..NRows(d) |-> [c \in DOMAIN d.dtypes |->
                            IF cast[c] = "float32" /\ ~IsNull(d.rows[i][c])
                            THEN Rat(d.rows[i][c].n, d.rows[i][c].d) ELSE d.rows[i][c]]]]
    IN  Returned(res, res, "same")

(***************************************************************************)
(* encode_categorical                                                      *)
(***************************************************************************)

\* the categories get_dummies and LabelEncoder derive from a column: its
\* distinct non-missing values in ascending sorted order
Categories(s) == Sorted(Unique(NonNull(s)))

\* str(level), as it is appended to the prefix (a non-integral float stands as n/d)
LevelName(c, dtype) ==
    CASE c.t = "str" -> c.s
      [] c.t = "bool" -> IF c.n = 1 THEN "True" ELSE "False"
      [] OTHER -> IF c.d # 1 THEN ToString(c.n) \o "/" \o ToString(c.d)
                  ELSE IF dtype = "int64" THEN ToString(c.n)
                  ELSE ToString(c.n) \o ".0"

\* drop_first left out: every level gets an indicator column
DummyLevelsAll(s) == Categories(s)

\* the levels that get an indicator column: with drop_first=True, all but the first
DummyLevels(s) == IF Categories(s) = << >> THEN << >> ELSE Tail(Categories(s))

DummyName(col, c, dtype) == col \o "_" \o LevelName(c, dtype)

\* the indicator columns of all encoded columns, in the order of `columns`, as
\* <<name, source column, level>>
RECURSIVE DummyColumns(_, _)
DummyColumns(d, columns) ==
    IF columns = << >> THEN << >>
    ELSE LET col == Head(columns)
             lv == DummyLevels(Column(d, col))
         IN  [k \in 1..Len(lv) |-> <<DummyName(col, lv[k], d.dtypes[col]), col, lv[k]>>]
             \o DummyColumns(d, Tail(columns))

\* pd.get_dummies(df, columns=columns, drop_first=True): the columns not encoded,
\* then the bool indicator columns; a missing cell has every indicator False
GetDummies(d, columns) ==
    LET kept == SelectSeq(d.columns, LAMBDA c : c \notin Range(columns))
        dum == DummyColumns(d, columns)
        names == kept \o [k \in 1..Len(dum) |-> dum[k][1]]
        Src(c) == CHOOSE k \in 1..Len(dum) : dum[k][1] = c
    IN  [columns |-> names,
         dtypes |-> [c \in Range(names) |-> IF c \in Range(kept) THEN d.dtypes[c] ELSE "bool"],
         rows |-> [i \in 1..NRows(d) |-> [c \in Range(names) |->
                    IF c \in Range(kept) THEN d.rows[i][c]
                    ELSE Bool(d.rows[i][dum[Src(c)][2]] = dum[Src(c)][3])]]]

\* LabelEncoder().fit_transform(series): the index of each value among the sorted
\* classes, a missing value being the last class
LabelCodes(s) ==
    LET classes == Categories(s)
        Code(c) == IF IsNull(c) THEN Len(classes)
                   ELSE (CHOOSE k \in 1..Len(classes) : classes[k] = c) - 1
    IN  [i \in 1..Len(s) |-> Num(Code(s[i]))]

\* one encoder fitted on the values of all the listed columns together
LabelLoopShared(d, columns) ==
    IF ~(Range(columns) \subseteq ColSet(d)) THEN [df |-> d, err |-> "KeyError"]
    ELSE LET all == UNION {Range(NonNull(Column(d, c))) : c \in Range(columns)}
             Code(x) == IF IsNull(x) THEN Cardinality(all)
                        ELSE Cardinality({y \in all : CellLess(y, x)})
         IN  [df |-> [d EXCEPT !.dtypes = [c \in DOMAIN d.dtypes |->
                                   IF c \in Range(columns) THEN "int64" ELSE d.dtypes[c]],
                               !.rows = [i \in 1..NRows(d) |-> [c \in DOMAIN d.dtypes |->
                                   IF c \in Range(columns) THEN Num(Code(d.rows[i][c]))
                                   ELSE d.rows[i][c]]]],
              err |-> ""]

\* the loop of lines 215-216: it stops at the first column that raises, with the
\* columns before it already encoded
RECURSIVE LabelLoop(_, _)
LabelLoop(d, columns) ==
    IF columns = << >> THEN [df |-> d, err |-> ""]
    ELSE IF Head(columns) \notin ColSet(d) THEN [df |-> d, err |-> "KeyError"]
    ELSE LabelLoop(SetColumn(d, Head(columns), LabelCodes(Column(d, Head(columns))), "int64"),
                   Tail(columns))

\* encode_categorical(df, columns, encoding_type)
encode_categorical(d, columns, encoding_type) ==
    IF encoding_type = "one_hot"
    THEN IF Range(columns) \subseteq ColSet(d)
         THEN Returned(d, GetDummies(d, columns), "new")
         ELSE Raised(d, "KeyError")
    ELSE IF encoding_type = "label"
    THEN LET r == LabelLoop(d, columns)
         IN  IF r.err # "" THEN Raised(r.df, r.err) ELSE Returned(r.df, r.df, "same")
    ELSE Returned(d, d, "same")

(***************************************************************************)
(* The datasets and arguments the stages are called with.                  *)
(***************************************************************************)

\* rows of the datasets of the pipeline specification
MaxRows == 3

\* stage calls in one run of the pipeline
MaxCalls == 2

\* rows of the datasets the imputation, outlier and encoding stages are checked on
MaxImputeRows == 4

MaxOutlierRows == 5

MaxEncodeRows == 4

SeqsUpTo(S, n) == UNION {[1..k -> S] : k \in 0..n}

\* a dataset as the import stage delivers it: text columns are object, a numeric
\* column is float64 when it holds a missing value and int64 otherwise
MakeDf(cols, text, rows) ==
    [columns |-> cols,
     dtypes |-> [c \in Range(cols) |->
                   IF c \in text THEN "object"
                   ELSE IF \E i \in 1..Len(rows) : IsNull(rows[i][c]) THEN "float64"
                   ELSE "int64"],
     rows |-> rows]

\* every dataset of at most n rows over the given cells
Frames(cols, text, cells, n) ==
    {MakeDf(cols, text, rows) :
        rows \in SeqsUpTo({r \in [Range(cols) -> UNION Range(cells)] :
                              \A k \in 1..Len(cols) : r[cols[k]] \in cells[k]}, n)}

\* the column of section 8 of the specification, with a text column beside it
OutlierExample ==
    MakeDf(<<"age", "color">>, {"color"},
           [i \in 1..10 |-> [age |-> Num(<<10, 12, 12, 13, 12, 11, 14, 13, 15, 102>>[i]),
                              color |-> Str(<<"red", "blue">>[1 + (i % 2)])]])

\* five rows, the third without an age
DropExample ==
    MakeDf(<<"age", "color">>, {"color"},
           [i \in 1..5 |-> [age |-> IF i = 3 THEN NULL ELSE Num(<<10, 12, 0, 13, 11>>[i]),
                             color |-> Str(<<"red", "blue", "green">>[1 + (i % 3)])]])

\* the column [1, 2, null, 4]
MeanExample ==
    MakeDf(<<"age", "color">>, {"color"},
           [i \in 1..4 |-> [age |-> IF i = 3 THEN NULL ELSE Num(i), color |-> Str("red")]])

PipelineFrames ==
    Frames(<<"age", "color">>, {"color"},
           <<{NULL, Num(1), Num(2)}, {Str("red"), Str("blue")}>>, MaxRows)
    \cup {OutlierExample}

ImputeFrames ==
    Frames(<<"age", "color">>, {"color"},
           <<{NULL, Num(1), Num(2)}, {NULL, Str("red")}>>, MaxImputeRows)
    \cup {DropExample, MeanExample}

OutlierFrames ==
    Frames(<<"age">>, {}, <<{NULL, Num(1), Num(2), Num(3), Num(9)}>>, MaxOutlierRows)
    \cup {OutlierExample}

EncodeFrames ==
    Frames(<<"color", "dept">>, {"color", "dept"},
           <<{NULL, Str("red"), Str("green"), Str("blue")}, {Str("red"), Str("blue")}>>,
           MaxEncodeRows)

\* "zero" and "ordinal" are strings the stages do not support
Strategies == {"mean", "median", "mode", "drop", "knn", "zero"}

EncodingTypes == {"one_hot", "label", "ordinal"}

\* << >> is columns=None; "dept" is no column of the pipeline's datasets
ColumnLists == {<< >>, <<"age">>, <<"age", "color">>}

SubsetLists == {<< >>, <<"color">>}

EncodeLists == {<<"color">>, <<"color", "dept">>}

ColumnNames == {"age", "color"}

NoOp == [name |-> "", arg |-> "", cols |-> << >>]

(***************************************************************************)
(* The state machine: a caller holding the dataset df calls one stage      *)
(* after another.  pre is df as it was when the last call was made, op     *)
(* the call, and out, kind, err, mask, report what it came back with.      *)
(* imputed lists the columns the call before the last one imputed, when    *)
(* it was an imputing handle_missing_values call on this same dataset      *)
(* that returned (as line 94 is to the call of line 97).                   *)
(***************************************************************************)

Start(frames) ==
    /\ df \in frames
    /\ out = EmptyDf
    /\ kind = "none"
    /\ err = ""
    /\ mask = << >>
    /\ report = << >>
    /\ pre = EmptyDf
    /\ op = NoOp
    /\ pc = "idle"
    /\ calls = 0
    /\ imputed = << >>

Init == Start(PipelineFrames)

\* the call `name(df, ...)` has come back with r
Call(r, name, arg, cols) ==
    /\ pc = "idle"
    /\ calls < MaxCalls
    /\ pre' = df
    /\ op' = [name |-> name, arg |-> arg, cols |-> cols]
    /\ df' = r.df
    /\ out' = r.out
    /\ kind' = r.kind
    /\ err' = r.err
    /\ mask' = r.mask
    /\ report' = r.report
    /\ pc' = "returned"
    /\ calls' = calls + 1
    /\ UNCHANGED imputed

HandleMissingValues(strategies, lists) ==
    \E strategy \in strategies, columns \in lists :
        Call(handle_missing_values(df, strategy, columns), "handle_missing_values", strategy, columns)

RemoveDuplicates(lists) ==
    \E subset \in lists :
        Call(remove_duplicates(df, subset), "remove_duplicates", "", subset)

DetectOutliersIqr(names) ==
    \E column \in names :
        Call(detect_outliers_iqr(df, column), "detect_outliers_iqr", column, << >>)

RemoveOutliers(names) ==
    \E column \in names :
        Call(remove_outliers(df, column), "remove_outliers", column, << >>)

ConvertDtypes == Call(convert_dtypes(df), "convert_dtypes", "", << >>)

EncodeCategorical(types, lists) ==
    \E encoding_type \in types, columns \in lists :
        Call(encode_categorical(df, columns, encoding_type), "encode_categorical", encoding_type, columns)

DataQualityReport == Call(data_quality_report(df), "data_quality_report", "", << >>)

\* the strategies that fill in values
ImputingStrategies == {"mean", "median", "mode", "knn"}

\* the caller goes on to the next stage with the dataset it passed in or, when
\* the call returned a dataset, with that one
NextStage ==
    /\ pc = "returned"
    /\ df' \in {df} \cup (IF kind \in {"same", "new"} THEN {out} ELSE {})
    /\ out' = EmptyDf
    /\ kind' = "none"
    /\ err' = ""
    /\ mask' = << >>
    /\ report' = << >>
    /\ pre' = EmptyDf
    /\ op' = NoOp
    /\ pc' = "idle"
    /\ imputed' = IF /\ op.name = "handle_missing_values"
                     /\ op.arg \in ImputingStrategies
                     /\ kind = "same"
                  THEN IF op.cols # << >> THEN op.cols ELSE pre.columns
                  ELSE << >>
    /\ UNCHANGED calls

Next ==
    \/ HandleMissingValues(Strategies, ColumnLists)
    \/ RemoveDuplicates(SubsetLists)
    \/ DetectOutliersIqr(ColumnNames)
    \/ RemoveOutliers(ColumnNames)
    \/ ConvertDtypes
    \/ EncodeCategorical(EncodingTypes, EncodeLists)
    \/ DataQualityReport
    \/ NextStage

Spec == Init /\ [][Next]_vars

(***************************************************************************)
(* Single stages on wider datasets: one call on a dataset of the family.   *)
(***************************************************************************)

ImputeLists == {<< >>, <<"age">>, <<"color">>, <<"age", "color">>}

EncodeBothLists == {<<"color">>, <<"dept">>, <<"color", "dept">>, <<"dept", "color">>}

InitImpute == Start(ImputeFrames)

NextImpute == HandleMissingValues(Strategies, ImputeLists)

SpecImpute == InitImpute /\ [][NextImpute]_vars

InitOutliers == Start(OutlierFrames)

NextOutliers ==
    \/ DetectOutliersIqr(ColumnNames)
    \/ RemoveOutliers(ColumnNames)

SpecOutliers == InitOutliers /\ [][NextOutliers]_vars

InitEncode == Start(EncodeFrames)

NextEncode == EncodeCategorical(EncodingTypes, EncodeBothLists)

SpecEncode == InitEncode /\ [][NextEncode]_vars

(***************************************************************************)
(* Properties.                                                             *)
(***************************************************************************)

\* the last call returned a dataset
ReturnedFrame == pc = "returned" /\ kind \in {"same", "new"}

\* the calls that may remove rows
Shrinking ==
    \/ op.name \in {"remove_duplicates", "remove_outliers"}
    \/ op.name = "handle_missing_values" /\ op.arg = "drop"

\* C1: no call of a cleaning stage increases the row count, and every call
\* other than drop-strategy missing-value handling, outlier removal and
\* duplicate removal leaves it exactly as it was
C1_RowCount ==
    pc = "returned" =>
        /\ NRows(df) = NRows(pre)
        /\ kind \in {"same", "new"} =>
                /\ NRows(out) <= NRows(pre)
                /\ ~Shrinking => NRows(out) = NRows(pre)

\* a second call in a row that removes outlier rows
C1_Witness ==
    /\ ReturnedFrame
    /\ calls = 2
    /\ op.name = "remove_outliers"
    /\ NRows(out) < NRows(pre)

\* C2: a stage call that fails leaves the caller's dataset exactly as it was
\* before the call
C2_FailureLeavesInputUnmodified ==
    (pc = "returned" /\ kind = "error") => (df.rows = pre.rows /\ df.columns = pre.columns)

\* C8: the quality report of a dataset with zero rows has null percentage 0
\* for every column
C8_EmptyReportHasZeroPercentages ==
    (pc = "returned" /\ op.name = "data_quality_report" /\ NRows(pre) = 0) =>
        /\ kind = "report"
        /\ \A k \in 1..Len(report) : report[k].NullPercentage = Num(0)

\* C9: a strategy or encoding type outside the supported strings fails with
\* InvalidArgument and never returns a dataset
C9_UnsupportedStringRejected ==
    (/\ pc = "returned"
     /\ \/ op.name = "handle_missing_values"
           /\ op.arg \notin {"mean", "median", "mode", "drop", "knn"}
        \/ op.name = "encode_categorical"
           /\ op.arg \notin {"one_hot", "label"})
    => (kind = "error" /\ err = "InvalidArgument")

\* C10: removing duplicates from the result of remove_duplicates, with the
\* same subset, returns that result again: the same rows in the same order
C10_RemoveDuplicatesIdempotent ==
    (ReturnedFrame /\ op.name = "remove_duplicates") =>
        LET again == remove_duplicates(out, op.cols)
        IN  again.kind = "new" /\ again.out = out

\* a call that did remove duplicate rows
C10_Witness ==
    /\ ReturnedFrame
    /\ op.name = "remove_duplicates"
    /\ op.cols = <<"color">>
    /\ NRows(out) < NRows(pre)
    /\ NRows(out) >= 2

\* the columns a handle_missing_values call works on
OpColumns == IF op.cols # << >> THEN op.cols ELSE pre.columns

\* the non-missing integers of a column, ascending
IntsOf(s) == SortSeq([i \in 1..Len(NonNull(s)) |-> NonNull(s)[i].n], LAMBDA a, b : a < b)

RECURSIVE IntSum(_)
IntSum(v) == IF v = << >> THEN 0 ELSE Head(v) + IntSum(Tail(v))

\* four times the k-th quartile of the ascending integers v, by linear
\* interpolation at rank (n-1)*k/4
Quartile4(v, k) ==
    LET h == (Len(v) - 1) * k
        lo == h \div 4
        r == h % 4
    IN  4 * v[lo + 1] + (IF r = 0 THEN 0 ELSE r * (v[lo + 2] - v[lo + 1]))

\* row i holds a value strictly outside [Q1 - 1.5*IQR, Q3 + 1.5*IQR]
OutsideFence(s, i) ==
    /\ ~IsNull(s[i])
    /\ LET v == IntsOf(s)
           q1 == Quartile4(v, 1)
           q3 == Quartile4(v, 3)
       IN  \/ 8 * s[i].n < 2 * q1 - 3 * (q3 - q1)
           \/ 8 * s[i].n > 2 * q3 + 3 * (q3 - q1)

\* C3: the mask of detect_outliers_iqr has one flag per row, true exactly for
\* the rows whose value is not missing and lies strictly below Q1 - 1.5*IQR
\* or strictly above Q3 + 1.5*IQR, Q1 and Q3 being the linearly interpolated
\* quartiles of the non-missing values; of [10, 12, 12, 13, 12, 11, 14, 13,
\* 15, 102] exactly the row holding 102 is flagged
C3_OutlierMask ==
    (pc = "returned" /\ op.name = "detect_outliers_iqr" /\ kind = "mask") =>
        LET s == Column(pre, op.arg)
        IN  /\ Len(mask) = NRows(pre)
            /\ \A i \in 1..Len(mask) : mask[i] <=> OutsideFence(s, i)
            /\ (pre = OutlierExample /\ op.arg = "age") => {i \in 1..Len(mask) : mask[i]} = {10}

\* a mask that flags a row of a column that also has a missing value
C3_Witness ==
    /\ pc = "returned"
    /\ op.name = "detect_outliers_iqr"
    /\ kind = "mask"
    /\ \E i, j \in 1..Len(mask) : mask[i] /\ IsNull(Column(pre, op.arg)[j])

\* x is the statistic of the non-missing values of column s
IsStatistic(strategy, s, x) ==
    LET v == IntsOf(s)
        n == Len(v)
    IN  CASE strategy = "mean" -> x.t = "num" /\ x.n * n = IntSum(v) * x.d
          [] strategy = "median" ->
                /\ x.t = "num"
                /\ IF n % 2 = 1 THEN x.n = v[(n + 1) \div 2] * x.d
                   ELSE 2 * x.n = (v[n \div 2] + v[n \div 2 + 1]) * x.d
          [] strategy = "mode" ->
                /\ x \in Range(s)
                /\ ~IsNull(x)
                /\ \A y \in Range(s) : IsNull(y) \/ Count(s, y) <= Count(s, x)

Complete == {i \in 1..NRows(pre) : \A c \in Range(OpColumns) : ~IsNull(pre.rows[i][c])}

\* the k-th of them
KthComplete(k) == CHOOSE i \in Complete : Cardinality({j \in Complete : j <= i}) = k

\* C5: the drop strategy returns exactly the rows with no missing value in
\* any of the specified columns, in their original order, whatever is
\* missing in other columns; dropping on age the five rows of which the
\* third has no age returns rows 1, 2, 4, 5
C5_Drop ==
    (/\ ReturnedFrame
     /\ op.name = "handle_missing_values"
     /\ op.arg = "drop")
    => /\ NRows(out) = Cardinality(Complete)
       /\ \A k \in 1..NRows(out) : out.rows[k] = pre.rows[KthComplete(k)]
       /\ out.columns = pre.columns
       /\ (pre = DropExample /\ op.cols = <<"age">>) =>
              out.rows = <<pre.rows[1], pre.rows[2], pre.rows[4], pre.rows[5]>>

\* dropping on age removed a row and kept one with no color
C5_Witness ==
    /\ ReturnedFrame
    /\ op.name = "handle_missing_values"
    /\ op.arg = "drop"
    /\ op.cols = <<"age">>
    /\ NRows(out) < NRows(pre)
    /\ \E k \in 1..NRows(out) : IsNull(out.rows[k]["color"])

\* the distinct observed categories of column c of pre
Observed(c) == Range(NonNull(Column(pre, c)))

\* the first category encountered in column c
FirstSeen(c) == Head(NonNull(Column(pre, c)))

\* the category of column c that sorts first
Smallest(c) == CHOOSE x \in Observed(c) : \A y \in Observed(c) : StrRank(x.s) <= StrRank(y.s)

\* the one-hot result replaces the encoded columns by one bool column
\* <column>_<category> for every observed category x of the column for which
\* Encoded(c, x) holds, true in exactly the rows that hold x
OneHotOf(Encoded(_, _)) ==
    /\ ColSet(out) = (ColSet(pre) \ Range(op.cols))
            \cup UNION {{c \o "_" \o x.s : x \in {y \in Observed(c) : Encoded(c, y)}} :
                            c \in Range(op.cols)}
    /\ NRows(out) = NRows(pre)
    /\ \A c \in Range(op.cols) : \A x \in Observed(c) :
            Encoded(c, x) =>
                \A i \in 1..NRows(pre) :
                    out.rows[i][c \o "_" \o x.s] = Bool(pre.rows[i][c] = x)

OneHotReturned ==
    /\ ReturnedFrame
    /\ op.name = "encode_categorical"
    /\ op.arg = "one_hot"

\* C6 as claimed: one-hot encoding leaves out the first-encountered category
\* of each column as the reference
C6_FirstSeenReference ==
    OneHotReturned => OneHotOf(LAMBDA c, x : x # FirstSeen(c))

\* C6 as amended: one-hot encoding replaces each specified column that has
\* N >= 1 observed categories by exactly N-1 bool columns <column>_<category>,
\* leaving out the category that sorts first; for red, green, blue the new
\* columns are color_green and color_red, and a blue row has both false
C6_SortedReference ==
    OneHotReturned =>
        /\ OneHotOf(LAMBDA c, x : x # Smallest(c))
        /\ \A c \in Range(op.cols) :
                Observed(c) # {} =>
                    Cardinality({n \in ColSet(out) :
                                   \E x \in Observed(c) : n = c \o "_" \o x.s})
                        = Cardinality(Observed(c)) - 1
        /\ (op.cols = <<"color">> /\ Observed("color") = {Str("red"), Str("green"), Str("blue")}) =>
                /\ ColSet(out) = {"dept", "color_green", "color_red"}
                /\ \A i \in 1..NRows(pre) :
                        pre.rows[i]["color"] = Str("blue") =>
                            /\ out.rows[i]["color_green"] = Bool(FALSE)
                            /\ out.rows[i]["color_red"] = Bool(FALSE)

\* red, green, blue in this order have been one-hot encoded
C6_Witness ==
    /\ OneHotReturned
    /\ op.cols = <<"color">>
    /\ Column(pre, "color") = <<Str("red"), Str("green"), Str("blue")>>
    /\ out.rows[1]["color_red"] = Bool(TRUE)
    /\ out.rows[3]["color_red"] = Bool(FALSE)

LabelReturned ==
    /\ ReturnedFrame
    /\ op.name = "encode_categorical"
    /\ op.arg = "label"

\* the place of x among the distinct values of column c in order of first appearance
FirstSeenIndex(c, x) ==
    LET u == Unique(NonNull(Column(pre, c)))
    IN  (CHOOSE k \in 1..Len(u) : u[k] = x) - 1

HandleMissingReturned ==
    /\ ReturnedFrame
    /\ op.name = "handle_missing_values"

\* the columns of pre that hold a missing value
WithMissing(d, cols) == {c \in Range(cols) : \E i \in 1..NRows(d) : IsNull(d.rows[i][c])}

\* drop returns a separate dataset and leaves the caller's as it was; an
\* imputing strategy returns the caller's dataset itself, with the imputed
\* values written into it
DropCopiesImputeWrites ==
    HandleMissingReturned =>
        /\ op.arg = "drop" => (kind = "new" /\ df = pre)
        /\ op.arg \in ImputingStrategies =>
                /\ kind = "same"
                /\ out = df
                /\ \A c \in Range(OpColumns) :
                        NonNull(Column(pre, c)) # << >> => NonNull(Column(df, c)) = Column(df, c)

\* two columns hold the same values row by row, whatever their dtypes (1, 1.0
\* and True are one value)
SameValues(s, t) ==
    /\ Len(s) = Len(t)
    /\ \A i \in 1..Len(s) :
            /\ IsNull(s[i]) <=> IsNull(t[i])
            /\ (s[i].t = "str") <=> (t[i].t = "str")
            /\ s[i].s = t[i].s
            /\ s[i].n * t[i].d = t[i].n * s[i].d

\* the call is an imputing one that follows at once an imputing call on the
\* same dataset
SecondImputation ==
    /\ HandleMissingReturned
    /\ op.arg \in ImputingStrategies
    /\ imputed # << >>

====
